---- MODULE Spec2Model ----
(***************************************************************************)
(* Model of the dependency-graph engine of eye-or:                         *)
(*   src/src/file_info.py         FileInfo                                 *)
(*   src/src/graph.py             Graph                                    *)
(*   src/src/dependency_graph.py  DependencyGraph                          *)
(*                                                                         *)
(* Strings are TLA+ strings handled as sequences of characters, so that    *)
(* split / join / replace / with_suffix are computed as Python computes    *)
(* them.  A FileInfo record is identified by its key in DependencyGraph    *)
(* .files (the string of its relative path); for one root this is in      *)
(* bijection with the absolute path that FileInfo.__eq__ compares.         *)
(***************************************************************************)
EXTENDS Naturals, Sequences, FiniteSets, TLC

VARIABLES
    root_path,      \* argument of DependencyGraph.__init__ (None or a path)
    file_paths,     \* argument of DependencyGraph.__init__ (list of paths)
    source,         \* the file system: absolute path -> parsed content
    pc,             \* position of the main thread
    error,          \* the exception that has left __init__, detect_cycles or save_json, or None
    files,          \* DependencyGraph.files: list of [key, absolute_path]
    dependencies,   \* FileInfo.dependencies of every record: key -> set of keys
    futures,        \* key -> "unsubmitted" | "pending" | "finished" | "collected"
    results,        \* key -> outcome of process_file in the worker
    yielded,        \* the keys of the futures as_completed has yielded, in order
    entry_point,    \* Graph.entry_point
    source_nodes,   \* Graph.source_nodes
    visited,        \* detect_cycles: visited
    stack,          \* detect_cycles: stack
    path,           \* detect_cycles: path
    cycles,         \* detect_cycles: cycles
    frames,         \* detect_cycles: the active dfs calls, [node, todo]
    cursor,         \* detect_cycles: position of the outer for loop
    output,         \* save_json: the text of the file at output_path, or None
    printed         \* save_json: the messages of the prints that returned

vars == <<root_path, file_paths, source, pc, error, files, dependencies,
          futures, results, yielded, entry_point, source_nodes, visited, stack, path,
          cycles, frames, cursor, output, printed>>

-----------------------------------------------------------------------------
(* Bounds of the model *)

\* most import statements in one file of a graph project
MaxImports == 2

-----------------------------------------------------------------------------
(* Python values *)

None == "None"

\* os.sep on the platforms the model covers
Sep == "/"

\* the extension that _initialize_files filters on and _build_graph appends
PyExt == ".py"

\* the reserved entry-file name of Graph.__post_init__
MainName == "main.py"

\* the messages of the ValueErrors that can leave DependencyGraph.__init__
NoRootError == "Could not determine common parent directory for files"
NotParentError == "Root path must be a parent directory of absolute path"
EmptyNameError == "PosixPath('.') has an empty name"
NoMainError == "No entry point specified and no main.py found"

\* the message of the RecursionError that can leave detect_cycles
RecursionError == "maximum recursion depth exceeded"

\* print(message) with the stdout of the caller: the message is written and
\* print returns; or print raises (stdout is closed, or cannot encode the
\* path, or the device refuses the write)
PrintOutcomes(message) ==
    { [printed |-> <<message>>, raised |-> FALSE],
      [printed |-> <<>>, raised |-> TRUE] }

\* the exception of a print outside any try: the one of the except branch of
\* _parse_imports and the one of the handler of save_json
PrintError == "print raised"

\* the message _parse_imports prints, without the path and the exception text
ParseErrorMessage == "Error parsing"

-----------------------------------------------------------------------------
(* str and list helpers *)

Char(s, i) == SubSeq(s, i, i)

Range(f) == {f[i] : i \in DOMAIN f}

\* str.endswith
EndsWith(s, suf) ==
    /\ Len(s) >= Len(suf)
    /\ SubSeq(s, Len(s) - Len(suf) + 1, Len(s)) = suf

\* str.split(sep) for a one-character separator
RECURSIVE Split(_, _)
Split(s, sep) ==
    LET hits == {i \in 1..Len(s) : Char(s, i) = sep} IN
    IF hits = {} THEN <<s>>
    ELSE LET i == CHOOSE j \in hits : \A h \in hits : j <= h
         IN  <<SubSeq(s, 1, i - 1)>> \o Split(SubSeq(s, i + 1, Len(s)), sep)

\* sep.join(parts)
RECURSIVE Join(_, _)
Join(parts, sep) ==
    IF Len(parts) = 0 THEN ""
    ELSE IF Len(parts) = 1 THEN parts[1]
    ELSE parts[1] \o sep \o Join(Tail(parts), sep)

\* str.replace(old, new) for a one-character old
RECURSIVE Replace(_, _, _)
Replace(s, old, new) ==
    LET hits == {i \in 1..Len(s) : Char(s, i) = old} IN
    IF hits = {} THEN s
    ELSE LET i == CHOOSE j \in hits : \A h \in hits : j <= h
         IN  SubSeq(s, 1, i - 1) \o new \o Replace(SubSeq(s, i + 1, Len(s)), old, new)

\* list[n:] for n >= 0, list[:-n] for n > 0
Drop(l, n) == SubSeq(l, n + 1, Len(l))
DropLast(l, n) == IF n >= Len(l) THEN <<>> ELSE SubSeq(l, 1, Len(l) - n)

\* list.index
IndexOf(l, x) == CHOOSE i \in 1..Len(l) : l[i] = x /\ \A h \in 1..(i - 1) : l[h] # x

-----------------------------------------------------------------------------
(* pathlib *)

\* the parts of an absolute path after "/", with "." and ".." folded as
\* Path.resolve() folds them on a tree without symbolic links
RECURSIVE Fold(_, _)
Fold(parts, acc) ==
    IF Len(parts) = 0 THEN acc
    ELSE LET p == parts[1] IN
         IF p = "" \/ p = "." THEN Fold(Tail(parts), acc)
         ELSE IF p = ".." THEN Fold(Tail(parts), DropLast(acc, 1))
         ELSE Fold(Tail(parts), Append(acc, p))

Parts(p) == Fold(Split(p, Sep), <<>>)

\* Path(p).resolve() as a string
Resolve(p) == Sep \o Join(Parts(p), Sep)

IsPrefix(a, b) == Len(a) <= Len(b) /\ SubSeq(b, 1, Len(a)) = a

\* absolute.relative_to(root) succeeds
IsRelativeTo(abs, root) == IsPrefix(Parts(root), Parts(abs))

\* str(absolute.relative_to(root))
RelativePath(abs, root) ==
    LET rel == Drop(Parts(abs), Len(Parts(root)))
    IN  IF Len(rel) = 0 THEN "." ELSE Join(rel, Sep)

\* PurePath.name of a relative path string
Name(rel) ==
    IF rel = "." THEN ""
    ELSE LET ps == Split(rel, Sep) IN ps[Len(ps)]

\* PurePath.suffix of a name
Suffix(name) ==
    LET dots == {i \in 1..Len(name) : Char(name, i) = "."} IN
    IF dots = {} THEN ""
    ELSE LET i == CHOOSE j \in dots : \A h \in dots : h <= j
         IN  IF i > 1 /\ i < Len(name) THEN SubSeq(name, i, Len(name)) ELSE ""

\* str(rel.with_suffix("")), for a relative path with a non-empty name
WithoutSuffix(rel) == SubSeq(rel, 1, Len(rel) - Len(Suffix(Name(rel))))

-----------------------------------------------------------------------------
(* FileInfo *)

\* FileInfo.__post_init__ raises ValueError
FileInfoFails(absolute_path, root) == ~IsRelativeTo(absolute_path, root)

\* str(file_info.relative_path)
KeyOf(absolute_path, root) == RelativePath(absolute_path, root)

-----------------------------------------------------------------------------
(* DependencyGraph._initialize_files *)

\* self.files[key] = file_info on a dict kept as a list in insertion order
DictPut(d, key, abs) ==
    IF \E i \in 1..Len(d) : d[i].key = key
    THEN [i \in 1..Len(d) |->
            IF d[i].key = key THEN [key |-> key, absolute_path |-> abs] ELSE d[i]]
    ELSE Append(d, [key |-> key, absolute_path |-> abs])

\* some FileInfo(path, root_path) of the loop raises
InitializeFilesFails(paths, root) ==
    \E i \in 1..Len(paths) : EndsWith(paths[i], PyExt) /\ FileInfoFails(paths[i], root)

\* the dict after the loop over paths, when no FileInfo raises
RECURSIVE InitializeFilesFrom(_, _, _)
InitializeFilesFrom(paths, root, d) ==
    IF Len(paths) = 0 THEN d
    ELSE IF ~EndsWith(paths[1], PyExt)
         THEN InitializeFilesFrom(Tail(paths), root, d)
    ELSE InitializeFilesFrom(Tail(paths), root,
             DictPut(d, KeyOf(paths[1], root), Resolve(paths[1])))

InitializeFiles(paths, root) == InitializeFilesFrom(paths, root, <<>>)

Keys(d) == {d[i].key : i \in 1..Len(d)}
KeyList(d) == [i \in 1..Len(d) |-> d[i].key]

-----------------------------------------------------------------------------
(* DependencyGraph._parse_imports *)

\* what one node of ast.walk(tree) adds to imports
ImportsOfNode(module, node) ==
    IF node.type = "Import" THEN Range(node.names)
    ELSE IF node.module = None THEN {}
    ELSE IF node.level = 0 THEN {node.module}
    ELSE LET parent_modules == DropLast(Split(module, "."), node.level) IN
         IF Len(parent_modules) = 0 THEN {}
         ELSE {Join(parent_modules \o <<Split(node.module, ".")[1]>>, ".")}

\* the module name of the importing file
ModuleOf(key) == Replace(WithoutSuffix(key), Sep, ".")

\* the outcomes of the call for the file under key: what is raised to the
\* caller, the set returned and what has been printed.  When open or
\* ast.parse raises, the except branch prints and returns the empty set, or
\* its print raises; otherwise with_suffix("") raises the ValueError of a
\* path with an empty name, or the imports of the nodes are returned
ParseImports(key, content) ==
    IF ~content.ok
    THEN {[raised |-> p.raised,
           error |-> IF p.raised THEN PrintError ELSE None,
           imports |-> {},
           printed |-> p.printed] : p \in PrintOutcomes(ParseErrorMessage)}
    ELSE IF Name(key) = ""
    THEN {[raised |-> TRUE, error |-> EmptyNameError, imports |-> {}, printed |-> <<>>]}
    ELSE LET module == ModuleOf(key) IN
         {[raised |-> FALSE, error |-> None,
           imports |-> UNION {ImportsOfNode(module, node) : node \in content.nodes},
           printed |-> <<>>]}

-----------------------------------------------------------------------------
(* DependencyGraph._build_graph *)

\* process_file, run by a worker
ProcessFile(file, content) == ParseImports(file.key, content)

\* FilePathOf that replaces the first dot only
FilePathOfFirstDot(imp) ==
    LET ps == Split(imp, ".") IN
    IF Len(ps) = 1 THEN imp \o PyExt
    ELSE ps[1] \o Sep \o Join(Tail(ps), ".") \o PyExt

\* imp.replace(".", os.sep) + ".py"
FilePathOf(imp) == Replace(imp, ".", Sep) \o PyExt

\* AddDependencies with the edge written into the imported record
AddDependenciesReversed(deps, keys, key, imports) ==
    [k \in DOMAIN deps |->
        IF k \in {FilePathOf(imp) : imp \in imports} THEN deps[k] \cup {key} ELSE deps[k]]

\* AddDependencies without the test that the resolved path is a key of the
\* files mapping
AddDependenciesUnchecked(deps, keys, key, imports) ==
    [deps EXCEPT ![key] = @ \cup {FilePathOf(imp) : imp \in imports}]

\* AddDependencies with one dependency set shared by all records (a mutable
\* default in place of default_factory)
AddDependenciesShared(deps, keys, key, imports) ==
    [k \in DOMAIN deps |-> deps[k] \cup ({FilePathOf(imp) : imp \in imports} \cap keys)]

\* the body of the as_completed loop for the result of one future
AddDependencies(deps, keys, key, imports) ==
    [deps EXCEPT ![key] = @ \cup ({FilePathOf(imp) : imp \in imports} \cap keys)]

-----------------------------------------------------------------------------
(* Graph.__post_init__ *)

\* MainCandidates that compares the whole relative path with "main.py"
MainCandidatesWholePath(d) == SelectSeq(KeyList(d), LAMBDA k : k = MainName)

MainCandidates(d) == SelectSeq(KeyList(d), LAMBDA k : Name(k) = MainName)

\* SourceNodes with the test inverted
SourceNodesInverted(d, deps) == SelectSeq(KeyList(d), LAMBDA k : deps[k] # {})

\* SourceNodes computed as if no dependency had been added yet
SourceNodesEarly(d, deps) == KeyList(d)

SourceNodes(d, deps) == SelectSeq(KeyList(d), LAMBDA k : deps[k] = {})

-----------------------------------------------------------------------------
(* DependencyGraph.detect_cycles *)

\* CycleAt without the closing element
CycleAtOpen(p, node) == Drop(p, IndexOf(p, node) - 1)

\* [str(f.relative_path) for f in path[cycle_start:]] + [str(file_info.relative_path)]
CycleAt(p, node) == Drop(p, IndexOf(p, node) - 1) \o <<node>>

\* DfsEnter with the visited test placed before the on-stack test
DfsEnterVisitedFirst(d, deps, node) ==
    LET entered ==
        IF node \in d.visited THEN d
        ELSE IF node \in d.stack
        THEN [d EXCEPT !.cycles = Append(@, CycleAt(d.path, node))]
        ELSE [visited |-> d.visited \cup {node},
              stack   |-> d.stack \cup {node},
              path    |-> Append(d.path, node),
              cycles  |-> d.cycles,
              frames  |-> Append(d.frames, [node |-> node, todo |-> deps[node]]),
              raised  |-> FALSE]
    IN  {entered, [d EXCEPT !.raised = TRUE]}

\* DfsEnter with the on-stack test placed after the push
DfsEnterPushFirst(d, deps, node) ==
    LET entered ==
        IF node \in d.visited /\ node \notin d.stack THEN d
        ELSE [visited |-> d.visited \cup {node},
              stack   |-> d.stack \cup {node},
              path    |-> Append(d.path, node),
              cycles  |-> Append(d.cycles, CycleAt(Append(d.path, node), node)),
              frames  |-> IF node \in d.stack THEN d.frames
                          ELSE Append(d.frames, [node |-> node, todo |-> deps[node]]),
              raised  |-> FALSE]
    IN  {entered, [d EXCEPT !.raised = TRUE]}

\* the outcomes of the call dfs(node) up to its loop over the dependencies or
\* its immediate return: d is [visited, stack, path, cycles, frames, raised].
\* dfs is recursive, one nested call for every record of the path: the call
\* runs as far as its loop or its return; or the call, or one of the calls
\* it makes before it changes a local (__hash__, __eq__, relative_path),
\* exceeds the recursion limit of the interpreter and RecursionError is
\* raised with the locals as they were
DfsEnter(d, deps, node) ==
    LET entered ==
        IF node \in d.stack
        THEN [d EXCEPT !.cycles = Append(@, CycleAt(d.path, node))]
        ELSE IF node \in d.visited THEN d
        ELSE [visited |-> d.visited \cup {node},
              stack   |-> d.stack \cup {node},
              path    |-> Append(d.path, node),
              cycles  |-> d.cycles,
              frames  |-> Append(d.frames, [node |-> node, todo |-> deps[node]]),
              raised  |-> FALSE]
    IN  {entered, [d EXCEPT !.raised = TRUE]}

\* DfsLeave without path.pop()
DfsLeaveNoPop(d) ==
    LET top == d.frames[Len(d.frames)] IN
    [visited |-> d.visited,
     stack   |-> d.stack \ {top.node},
     path    |-> d.path,
     cycles  |-> d.cycles,
     frames  |-> DropLast(d.frames, 1),
     raised  |-> FALSE]

\* DfsLeave without stack.remove(file_info)
DfsLeaveKeepsStack(d) ==
    [visited |-> d.visited,
     stack   |-> d.stack,
     path    |-> DropLast(d.path, 1),
     cycles  |-> d.cycles,
     frames  |-> DropLast(d.frames, 1),
     raised  |-> FALSE]

\* the state after the loop of the innermost dfs call has ended
DfsLeave(d) ==
    LET top == d.frames[Len(d.frames)] IN
    [visited |-> d.visited,
     stack   |-> d.stack \ {top.node},
     path    |-> DropLast(d.path, 1),
     cycles  |-> d.cycles,
     frames  |-> DropLast(d.frames, 1),
     raised  |-> FALSE]

\* the locals of a detect_cycles that has raised nothing
Dfs == [visited |-> visited, stack |-> stack, path |-> path, cycles |-> cycles,
        frames |-> frames, raised |-> FALSE]

SetDfs(d) ==
    /\ visited' = d.visited
    /\ stack' = d.stack
    /\ path' = d.path
    /\ cycles' = d.cycles
    /\ frames' = d.frames

\* the step of the walk that calls dfs: an exception of the call is caught
\* nowhere (no try in dfs or detect_cycles) and leaves detect_cycles
DfsCall(d) ==
    /\ SetDfs(d)
    /\ pc' = IF d.raised THEN "detect_failed" ELSE pc
    /\ error' = IF d.raised THEN RecursionError ELSE error

-----------------------------------------------------------------------------
(* The inputs: a root, a list of paths and the content of the files.  The   *)
(* content of a file is what ast.parse makes of it: ok is FALSE when open   *)
(* or ast.parse raises, nodes are the Import and ImportFrom nodes of the    *)
(* tree.                                                                    *)

\* import a
Import(name) == [type |-> "Import", names |-> <<name>>, module |-> None, level |-> 0]

\* import a, b
Import2(a, b) == [type |-> "Import", names |-> <<a, b>>, module |-> None, level |-> 0]

\* from <level dots><module> import x
ImportFrom(module, level) ==
    [type |-> "ImportFrom", names |-> <<"x">>, module |-> module, level |-> level]

\* from <level dots> import name
ImportFromDots(level, name) ==
    [type |-> "ImportFrom", names |-> <<name>>, module |-> None, level |-> level]

Parsed(nodes) == [ok |-> TRUE, nodes |-> nodes]
Unparsable == [ok |-> FALSE, nodes |-> {}]

Perms(S) ==
    {sq \in [1..Cardinality(S) -> S] :
        \A i, j \in 1..Cardinality(S) : i # j => sq[i] # sq[j]}

Project(root, paths, src) == [root |-> root, paths |-> paths, source |-> src]

\* Graph projects: some of main.py, a.py, pkg/b.py or some of a.py, pkg/b.py,
\* c.py under /r, listed in any order, each file importing up to MaxImports
\* files of the project (itself included)
GraphModules ==
    [p \in {"/r/main.py", "/r/a.py", "/r/pkg/b.py", "/r/c.py"} |->
        CASE p = "/r/main.py" -> "main"
          [] p = "/r/a.py" -> "a"
          [] p = "/r/pkg/b.py" -> "pkg.b"
          [] p = "/r/c.py" -> "c"]

GraphProjects ==
    UNION {
        {Project("/r", sq, src) :
            sq \in Perms(S),
            src \in [S -> {Parsed(N) : N \in
                        {M \in SUBSET {Import(GraphModules[p]) : p \in S} :
                            Cardinality(M) <= MaxImports}}]}
        : S \in SUBSET {"/r/main.py", "/r/a.py", "/r/pkg/b.py"}
                \cup SUBSET {"/r/a.py", "/r/pkg/b.py", "/r/c.py"}}

\* Import projects: pkg/sub/mod.py holds one import statement of each form;
\* pkg/other.py is or is not in the analyzed set
ModNodes ==
    { ImportFrom("other", 2), ImportFromDots(2, "other"), ImportFrom("other.deep", 2),
      ImportFrom("other", 1), ImportFrom("main", 3), ImportFrom("main", 4),
      ImportFrom("pkg.other", 0), ImportFrom("other", 0),
      Import("os"), Import("pkg"), Import2("os", "pkg.other"),
      Import("pkg.sub.mod") }

ImportProjects ==
    {Project("/r", sq, [p \in Range(sq) |->
                          IF p = "/r/pkg/sub/mod.py" THEN mod
                          ELSE IF p = "/r/main.py" THEN main ELSE Parsed({})]) :
        sq \in { <<"/r/main.py", "/r/pkg/other.py", "/r/pkg/sub/mod.py">>,
                 <<"/r/pkg/sub/mod.py", "/r/main.py">> },
        mod \in {Parsed({n}) : n \in ModNodes} \cup {Unparsable},
        main \in {Parsed({Import("pkg.sub.mod")}), Unparsable}}

\* Path projects: roots and path lists that exercise FileInfo, the .py
\* filter and the keys of the files mapping
PathProjects ==
    {Project(root, sq, [p \in {Resolve(q) : q \in Range(sq)} |-> content]) :
        root \in {None, "/r", "/r/pkg", "/r/main.py", "/r/pkg/.."},
        sq \in { <<>>,
                 <<"/r/main.py">>,
                 <<"/r/main.py", "/r/notes.txt", "/r/a.py">>,
                 <<"/r/pkg/main.py", "/r/pkg/a.py">>,
                 <<"/r/pkg/a.py", "/r/pkg/main.py", "/r/main.py">>,
                 <<"/r/pkg/a.py", "/r/main.py">>,
                 <<"/r/a.py", "/r/pkg/../a.py", "/r/./main.py">>,
                 <<"/x/a.py", "/r/main.py">> },
        content \in {Parsed({Import("main"), Import("a"), Import("pkg.a")}), Unparsable}}

\* Root-file projects: the root is itself a supplied .py path.  /r/d.py is a
\* directory (open fails on it), or a regular file (open fails below it), or
\* nothing exists there
RootFileProjects ==
    {Project("/r/d.py", sq, [p \in {"/r/d.py", "/r/d.py/main.py"} |->
                                IF p = "/r/d.py" THEN c[1] ELSE c[2]]) :
        sq \in { <<"/r/d.py", "/r/d.py/main.py">>,
                 <<"/r/d.py/main.py", "/r/d.py">> },
        c \in { <<Unparsable, Parsed({Import("os")})>>,
                <<Parsed({Import("os")}), Unparsable>>,
                <<Unparsable, Unparsable>> }}

\* Name projects: file names with characters that json.dump escapes: control
\* characters (a tab, a newline, a form feed, a carriage return and, between
\* d and the dot, the character 127), a quote and a backslash
NameProjects ==
    {Project("/r", sq, [p \in Range(sq) |-> Parsed({Import("os")})]) :
        sq \in { <<"/r/main.py", "/r/d.py", "/r/ta\tb\n.py">>,
                 <<"/r/q\"b\\c.py", "/r/f\fr\r.py", "/r/main.py">> }}

Projects ==
    GraphProjects \cup ImportProjects \cup PathProjects \cup RootFileProjects
        \cup NameProjects

-----------------------------------------------------------------------------
(* DependencyGraph.save_json *)

\* Serializable that writes a dependency by the final component of its path
SerializableNames(d, lists) ==
    [i \in 1..Len(d) |->
        [key |-> d[i].key,
         values |-> [j \in 1..Len(lists[d[i].key]) |-> Name(lists[d[i].key][j])]]]

\* the dict comprehension: one item per record, in the order of self.files;
\* lists[k] is the order in which the dependency set of k is iterated
Serializable(d, lists) ==
    [i \in 1..Len(d) |-> [key |-> d[i].key, values |-> lists[d[i].key]]]

\* the iteration orders of the dependency sets of the first n records: for
\* every key the list in which `for dep in file_info.dependencies` yields
RECURSIVE IterationOrdersUpTo(_, _, _)
IterationOrdersUpTo(d, deps, n) ==
    IF n = 0 THEN {<<>>}
    ELSE {lists @@ (d[n].key :> order) :
             lists \in IterationOrdersUpTo(d, deps, n - 1),
             order \in Perms(deps[d[n].key])}

IterationOrders(d, deps) == IterationOrdersUpTo(d, deps, Len(d))

\* json.dump(obj, f, indent=4) with ensure_ascii: the characters from the
\* space to the tilde that are written as they are,
JsonPlain ==
    LET plain == " !#$%&()*+,-./0123456789:;<=>?@ABCDEFGHIJKLMNOPQRSTUVWXYZ"
                     \o "[]^_`'abcdefghijklmnopqrstuvwxyz{|}~"
    IN  {Char(plain, i) : i \in 1..Len(plain)}

\* the four hexadecimal digits of the character 127, the one character
\* without a short form that the projects use,
JsonCodePoint == [c \in {""} |-> "007f"]

\* one character of a string literal: a quote, a backslash and a control
\* character with a short form get the short form; any other character
\* outside JsonPlain is written as \uXXXX and is defined here when
\* JsonCodePoint has it,
JsonChar(c) ==
    CASE c = "\\" -> "\\\\"
      [] c = "\"" -> "\\\""
      [] c = "\n" -> "\\n"
      [] c = "\r" -> "\\r"
      [] c = "\t" -> "\\t"
      [] c = "\f" -> "\\f"
      [] c \in JsonPlain -> c
      [] c \in DOMAIN JsonCodePoint -> "\\u" \o JsonCodePoint[c]

\* a string literal,
JsonString(s) == "\"" \o Join([i \in 1..Len(s) |-> JsonChar(Char(s, i))], "") \o "\""

JsonIndent == "    "

\* a list of strings at the second level,
JsonList(values) ==
    IF Len(values) = 0 THEN "[]"
    ELSE "[\n"
         \o Join([j \in 1..Len(values) |->
                     JsonIndent \o JsonIndent \o JsonString(values[j])], ",\n")
         \o "\n" \o JsonIndent \o "]"

\* and the object at the top level
JsonDump(obj) ==
    IF Len(obj) = 0 THEN "{}"
    ELSE "{\n"
         \o Join([i \in 1..Len(obj) |->
                     JsonIndent \o JsonString(obj[i].key) \o ": "
                         \o JsonList(obj[i].values)], ",\n")
         \o "\n}"

\* the messages save_json prints, without the path and the exception text
SavedMessage == "Dependency graph saved to"
SaveErrorMessage == "Error saving to"

-----------------------------------------------------------------------------
(* The state machine *)

Init ==
    /\ \E prj \in Projects :
          /\ root_path = prj.root
          /\ file_paths = prj.paths
          /\ source = prj.source
    /\ pc = "new"
    /\ error = None
    /\ files = <<>>
    /\ dependencies = <<>>
    /\ futures = <<>>
    /\ results = <<>>
    /\ yielded = <<>>
    /\ entry_point = None
    /\ source_nodes = <<>>
    /\ visited = {}
    /\ stack = {}
    /\ path = <<>>
    /\ cycles = <<>>
    /\ frames = <<>>
    /\ cursor = 0
    /\ output = None
    /\ printed = <<>>

inputs == <<root_path, file_paths, source>>
graph == <<entry_point, source_nodes>>
search == <<visited, stack, path, cycles, frames, cursor>>
saved == <<output, printed>>

\* DependencyGraph.__init__ up to the entry of the with block in _build_graph:
\* the records exist and no task has been submitted
Construct ==
    /\ pc = "new"
    /\ IF root_path = None
       THEN /\ pc' = "failed"
            /\ error' = NoRootError
            /\ UNCHANGED <<files, dependencies, futures, results, yielded>>
       ELSE IF InitializeFilesFails(file_paths, Resolve(root_path))
       THEN /\ pc' = "failed"
            /\ error' = NotParentError
            /\ UNCHANGED <<files, dependencies, futures, results, yielded>>
       ELSE LET d == InitializeFiles(file_paths, Resolve(root_path)) IN
            /\ pc' = IF Len(d) = 0 THEN "building" ELSE "submitting"
            /\ files' = d
            /\ dependencies' = [k \in Keys(d) |-> {}]
            /\ futures' = [k \in Keys(d) |-> "unsubmitted"]
            /\ results' = [k \in Keys(d) |-> None]
            /\ yielded' = <<>>
            /\ UNCHANGED error
    /\ UNCHANGED <<saved, inputs, graph, search>>

\* one round of the dict comprehension: executor.submit(process_file,
\* file_info) for the next record of self.files; after the last one the
\* as_completed loop starts
Submit(i) ==
    /\ pc = "submitting"
    /\ futures[files[i].key] = "unsubmitted"
    /\ \A j \in 1..(i - 1) : futures[files[j].key] # "unsubmitted"
    /\ futures' = [futures EXCEPT ![files[i].key] = "pending"]
    /\ pc' = IF i = Len(files) THEN "building" ELSE "submitting"
    /\ UNCHANGED <<saved, inputs, error, files, dependencies, results, yielded, graph, search>>

\* a worker runs process_file for one record: as soon as the task is
\* submitted, and also while an exception of the loop waits for the executor
RunTask(i) ==
    /\ pc \in {"submitting", "building", "raising"}
    /\ futures[files[i].key] = "pending"
    /\ futures' = [futures EXCEPT ![files[i].key] = "finished"]
    /\ \E outcome \in ProcessFile(files[i], source[files[i].absolute_path]) :
          results' = [results EXCEPT ![files[i].key] = outcome]
    /\ UNCHANGED <<saved, inputs, pc, error, files, dependencies, yielded, graph, search>>

\* as_completed yields a finished future and the loop body handles its
\* result; an exception of future.result() starts to leave the with block
CollectResult(k) ==
    /\ pc = "building"
    /\ futures[k] = "finished"
    /\ futures' = [futures EXCEPT ![k] = "collected"]
    /\ yielded' = Append(yielded, k)
    /\ IF results[k].raised
       THEN /\ pc' = "raising"
            /\ error' = results[k].error
            /\ UNCHANGED dependencies
       ELSE /\ dependencies' = AddDependencies(dependencies, Keys(files), k,
                                               results[k].imports)
            /\ UNCHANGED <<pc, error>>
    /\ UNCHANGED <<saved, inputs, files, results, graph, search>>

\* ThreadPoolExecutor.__exit__ on the way of the exception: shutdown(wait=True)
\* returns when every submitted task has run, and the exception leaves __init__
ExecutorExit ==
    /\ pc = "raising"
    /\ \A k \in Keys(files) : futures[k] # "pending"
    /\ pc' = "failed"
    /\ UNCHANGED <<saved, inputs, error, files, dependencies, futures, results, yielded, graph,
                   search>>

\* the loop has ended and the executor has shut down: return Graph(files=self.files)
BuildGraph ==
    /\ pc = "building"
    /\ \A k \in Keys(files) : futures[k] = "collected"
    /\ IF Len(MainCandidates(files)) = 0
       THEN /\ pc' = "failed"
            /\ error' = NoMainError
            /\ UNCHANGED graph
       ELSE /\ pc' = "built"
            /\ entry_point' = MainCandidates(files)[1]
            /\ source_nodes' = SourceNodes(files, dependencies)
            /\ UNCHANGED error
    /\ yielded' = <<>>
    /\ UNCHANGED <<saved, inputs, files, dependencies, futures, results, search>>

\* detect_cycles is called: the four locals are created
DetectCycles ==
    /\ pc = "built"
    /\ pc' = "detecting"
    /\ SetDfs([visited |-> {}, stack |-> {}, path |-> <<>>, cycles |-> <<>>,
               frames |-> <<>>, raised |-> FALSE])
    /\ cursor' = 1
    /\ UNCHANGED <<saved, inputs, error, files, dependencies, futures, results, yielded, graph>>

\* DfsRoot of a walk that starts from the entry point only
DfsRootEntryOnly ==
    /\ pc = "detecting"
    /\ frames = <<>>
    /\ cursor <= Len(files)
    /\ cursor' = Len(files) + 1
    /\ \E d \in DfsEnter(Dfs, dependencies, entry_point) : DfsCall(d)
    /\ UNCHANGED <<saved, inputs, files, dependencies, futures, results, yielded, graph>>

\* one round of the outer loop: dfs(file_info) when file_info is not visited
DfsRoot ==
    /\ pc = "detecting"
    /\ frames = <<>>
    /\ cursor <= Len(files)
    /\ cursor' = cursor + 1
    /\ IF files[cursor].key \in visited
       THEN UNCHANGED <<pc, error, visited, stack, path, cycles, frames>>
       ELSE \E d \in DfsEnter(Dfs, dependencies, files[cursor].key) : DfsCall(d)
    /\ UNCHANGED <<saved, inputs, files, dependencies, futures, results, yielded, graph>>

\* the loop of the innermost dfs call takes its next dependency: dfs(dep)
DfsDep ==
    /\ pc = "detecting"
    /\ frames # <<>>
    /\ \E dep \in frames[Len(frames)].todo :
          \E d \in DfsEnter([Dfs EXCEPT !.frames[Len(frames)].todo = @ \ {dep}],
                            dependencies, dep) : DfsCall(d)
    /\ UNCHANGED <<saved, inputs, files, dependencies, futures, results, yielded, graph, cursor>>

\* DfsReturn of a walk that empties the dependency set it has iterated over
DfsReturnConsuming ==
    /\ pc = "detecting"
    /\ frames # <<>>
    /\ frames[Len(frames)].todo = {}
    /\ SetDfs(DfsLeave(Dfs))
    /\ dependencies' = [dependencies EXCEPT ![frames[Len(frames)].node] = {}]
    /\ UNCHANGED <<saved, inputs, pc, error, files, futures, results, yielded, graph, cursor>>

\* the loop of the innermost dfs call has ended: pop and return
DfsReturn ==
    /\ pc = "detecting"
    /\ frames # <<>>
    /\ frames[Len(frames)].todo = {}
    /\ SetDfs(DfsLeave(Dfs))
    /\ UNCHANGED <<saved, inputs, pc, error, files, dependencies, futures, results, yielded, graph,
                   cursor>>

\* the outer loop has ended: return cycles
DetectCyclesReturn ==
    /\ pc = "detecting"
    /\ frames = <<>>
    /\ cursor > Len(files)
    /\ pc' = "detected"
    /\ UNCHANGED <<saved, inputs, error, files, dependencies, futures, results, yielded, graph, search>>

\* the try statement for the text to write: what is in the file, what has
\* been printed and what is raised to the caller when it ends.  The file is
\* written and the success message printed; or that print raises inside the
\* try and the handler prints; or open raises and the file is as it was, or
\* open has truncated the file and the write raises, which leaves a proper
\* prefix of the text, and the handler prints.  An exception of the
\* handler's print is not caught
SaveOutcomes(before, text) ==
    { [output |-> text, printed |-> p.printed, raised |-> FALSE] :
          p \in {q \in PrintOutcomes(SavedMessage) : ~q.raised} }
    \cup
    { [output |-> text, printed |-> p.printed \o h.printed, raised |-> h.raised] :
          p \in {q \in PrintOutcomes(SavedMessage) : q.raised},
          h \in PrintOutcomes(SaveErrorMessage) }
    \cup
    { [output |-> o, printed |-> h.printed, raised |-> h.raised] :
          o \in {before} \cup {SubSeq(text, 1, n) : n \in 0..(Len(text) - 1)},
          h \in PrintOutcomes(SaveErrorMessage) }

\* save_json(output_path) on the built graph, as the caller's last call on
\* the object: it returns, or the exception of the handler's print leaves it
SaveJson ==
    /\ pc = "built"
    /\ pc' = "saved"
    /\ \E lists \in IterationOrders(files, dependencies) :
          \E out \in SaveOutcomes(output, JsonDump(Serializable(files, lists))) :
              /\ output' = out.output
              /\ printed' = out.printed
              /\ error' = IF out.raised THEN PrintError ELSE error
    /\ UNCHANGED <<inputs, files, dependencies, futures, results, yielded, graph, search>>

Next ==
    \/ Construct
    \/ \E i \in 1..Len(files) : Submit(i)
    \/ \E i \in 1..Len(files) : RunTask(i)
    \/ \E k \in Keys(files) : CollectResult(k)
    \/ ExecutorExit
    \/ BuildGraph
    \/ DetectCycles
    \/ DfsRoot
    \/ DfsDep
    \/ DfsReturn
    \/ DetectCyclesReturn
    \/ SaveJson

\* a caller who builds the graph and then searches it for cycles or saves it
Spec == Init /\ [][Next]_vars

\* the steps of a caller who builds the graph and searches it for cycles
NextDetect ==
    \/ Construct
    \/ \E i \in 1..Len(files) : Submit(i)
    \/ \E i \in 1..Len(files) : RunTask(i)
    \/ \E k \in Keys(files) : CollectResult(k)
    \/ ExecutorExit
    \/ BuildGraph
    \/ DetectCycles
    \/ DfsRoot
    \/ DfsDep
    \/ DfsReturn
    \/ DetectCyclesReturn

\* a caller who builds the graph and then searches it for cycles
DetectSpec == Init /\ [][NextDetect]_vars

\* detect_cycles runs in the calling thread without waiting for anything: a
\* step of the walk that can be taken is taken
FairSpec ==
    /\ DetectSpec
    /\ WF_vars(DfsRoot)
    /\ WF_vars(DfsDep)
    /\ WF_vars(DfsReturn)
    /\ WF_vars(DetectCyclesReturn)

-----------------------------------------------------------------------------
(* Vocabulary of the properties *)

\* __init__ got as far as creating every record
RecordsCreated == pc # "new" /\ error \notin {NoRootError, NotParentError}

\* the task of record k has run in a worker
TaskRan(k) == futures[k] \in {"finished", "collected"}

\* the as_completed loop has handled the result of every task
AllCollected ==
    /\ RecordsCreated
    /\ \A k \in Keys(files) : futures[k] = "collected" /\ ~results[k].raised

\* the build has returned a graph
Built == pc \in {"built", "detecting", "detected", "detect_failed", "saved"}

AbsoluteOf(k) == (CHOOSE r \in Range(files) : r.key = k).absolute_path

Reverse(l) == [i \in 1..Len(l) |-> l[Len(l) + 1 - i]]

CycleSet == Range(cycles)

-----------------------------------------------------------------------------
(* C1: for a fixed file set and fixed contents, the edge set left by the    *)
(* build is the same for every order in which the task results are          *)
(* collected: once all results are handled, every record's dependency set   *)
(* is the set of records that the imports of its own file resolve to, a     *)
(* function of the file set and the contents alone.                         *)

EdgesOf(d, src) ==
    [k \in Keys(d) |->
        LET abs == (CHOOSE r \in Range(d) : r.key = k).absolute_path
            imports == UNION {o.imports : o \in ParseImports(k, src[abs])}
        IN  {FilePathOf(imp) : imp \in imports} \cap Keys(d)]

C1_EdgesIndependentOfOrder ==
    AllCollected => dependencies = EdgesOf(files, source)

\* three results collected in the reverse of the submission order, two of
\* them adding edges
C1_Witness ==
    /\ AllCollected
    /\ pc = "building"
    /\ Len(files) = 3
    /\ yielded = Reverse(KeyList(files))
    /\ Cardinality({k \in Keys(files) : dependencies[k] # {}}) >= 2
    /\ \E k \in Keys(files) : dependencies[k] = {}

-----------------------------------------------------------------------------
(* C2: when no record's dependency set contains any record, detect_cycles   *)
(* returns an empty list.                                                   *)

NoEdges == \A k \in Keys(files) : dependencies[k] = {}

C2_NoEdgesNoCycles ==
    (pc = "detected" /\ NoEdges) => cycles = <<>>

\* detect_cycles has returned on three files, one of which imports only
\* modules outside the analyzed set
C2_Witness ==
    /\ pc = "detected"
    /\ NoEdges
    /\ Len(files) = 3
    /\ \E k \in Keys(files) : results[k].imports # {}
    /\ cycles = <<>>

-----------------------------------------------------------------------------
(* C3: for distinct files A and B that depend on each other, the list       *)
(* returned by detect_cycles contains [A, B, A] or [B, A, B], whatever      *)
(* other edges the graph has and whatever the iteration order.              *)

Mutual(a, b) == a # b /\ b \in dependencies[a] /\ a \in dependencies[b]

C3_MutualImportCycle ==
    pc = "detected" =>
        \A a, b \in Keys(files) :
            Mutual(a, b) => (<<a, b, a>> \in CycleSet \/ <<b, a, b>> \in CycleSet)

-----------------------------------------------------------------------------
(* C4: when a file F has itself in its dependency set, the list returned by *)
(* detect_cycles contains the cycle [F, F], whatever other edges there are. *)

C4_SelfImportCycle ==
    pc = "detected" =>
        \A f \in Keys(files) : f \in dependencies[f] => <<f, f>> \in CycleSet

\* F imports itself and another file that imports F back
C4_Witness ==
    /\ pc = "detected"
    /\ \E f, g \in Keys(files) :
          /\ f \in dependencies[f]
          /\ Mutual(f, g)
          /\ <<f, f>> \in CycleSet

-----------------------------------------------------------------------------
(* C5 (as stated): a build from exactly three files a, b, c with a -> b,    *)
(* b -> c, c -> a succeeds; detect_cycles returns exactly one cycle, a      *)
(* rotation of [a, b, c, a]; the source-node list is empty.                 *)

ThreeCycle ==
    /\ AllCollected
    /\ Len(files) = 3
    /\ \A k \in Keys(files) : Cardinality(dependencies[k]) = 1 /\ k \notin dependencies[k]
    /\ UNION {dependencies[k] : k \in Keys(files)} = Keys(files)

IsRotation(c) ==
    /\ Len(c) = 4
    /\ c[1] = c[4]
    /\ {c[1], c[2], c[3]} = Keys(files)
    /\ \A i \in 1..3 : c[i + 1] \in dependencies[c[i]]

ThreeCycleOutcome ==
    /\ pc # "failed"
    /\ Built => source_nodes = <<>>
    /\ pc = "detected" => Len(cycles) = 1 /\ IsRotation(cycles[1])

C5_Original == ThreeCycle => ThreeCycleOutcome

(* C5 (amended): a build from exactly three files a, b, c with a -> b,      *)
(* b -> c, c -> a, one of which has main.py as the final component of its   *)
(* relative path, succeeds; detect_cycles returns exactly one cycle, a      *)
(* rotation of [a, b, c, a]; the source-node list is empty.                 *)
C5_ThreeCycle ==
    (ThreeCycle /\ \E k \in Keys(files) : Name(k) = MainName) => ThreeCycleOutcome

\* the cycle has been reported, starting at a file that is not the entry point
C5_Witness ==
    /\ ThreeCycle
    /\ pc = "detected"
    /\ Len(cycles) = 1
    /\ IsRotation(cycles[1])
    /\ cycles[1][1] # entry_point
    /\ source_nodes = <<>>

-----------------------------------------------------------------------------
(* C6 (as stated): the build fails with a construction error exactly when   *)
(* no file of the set has main.py as the final component of its relative    *)
(* path; after a successful build the entry point is a record of the files  *)
(* mapping whose final path component is main.py.                           *)

BuildOver == pc = "failed" \/ Built

\* some supplied .py file has a relative path whose final component is main.py
SuppliedMain ==
    /\ root_path # None
    /\ \E i \in 1..Len(file_paths) :
          /\ EndsWith(file_paths[i], PyExt)
          /\ IsRelativeTo(file_paths[i], Resolve(root_path))
          /\ Name(RelativePath(file_paths[i], Resolve(root_path))) = MainName

EntryPointOk == entry_point \in Keys(files) /\ Name(entry_point) = MainName

\* root is an ancestor of abs and differs from it
ProperAncestor(root, abs) ==
    /\ IsPrefix(Parts(root), Parts(abs))
    /\ Len(Parts(root)) < Len(Parts(abs))

C6_Original ==
    BuildOver => /\ (pc = "failed") <=> ~SuppliedMain
                 /\ Built => EntryPointOk

\* a result that as_completed has yielded re-raises the exception of its worker
WorkerRaised(f) == futures[f] = "collected" /\ results[f].raised

(* C6 (amended): the build fails with a construction error exactly when no  *)
(* root is supplied, or a supplied .py path does not lie under the root, or *)
(* the exception of a worker is re-raised by the loop over the results, or  *)
(* no record of the files mapping has main.py as the final component of its *)
(* relative path; after every successful build the entry point is a record  *)
(* of the files mapping whose final path component is main.py.              *)
C6_EntryPoint ==
    /\ pc = "failed" =>
          \/ root_path = None /\ error = NoRootError
          \/ /\ root_path # None
             /\ error = NotParentError
             /\ \E i \in 1..Len(file_paths) :
                   /\ EndsWith(file_paths[i], PyExt)
                   /\ ~IsRelativeTo(file_paths[i], Resolve(root_path))
          \/ /\ RecordsCreated
             /\ \E f \in Keys(files) : WorkerRaised(f) /\ error = results[f].error
          \/ /\ AllCollected
             /\ error = NoMainError
             /\ \A k \in Keys(files) : Name(k) # MainName
    /\ Built =>
          /\ root_path # None
          /\ \A i \in 1..Len(file_paths) :
                EndsWith(file_paths[i], PyExt)
                    => IsRelativeTo(file_paths[i], Resolve(root_path))
          /\ \A f \in Keys(files) : ~WorkerRaised(f)
          /\ \E k \in Keys(files) : Name(k) = MainName
          /\ EntryPointOk

\* a build has succeeded with an entry point main.py inside a directory,
\* which is not the first record of the mapping
C6_Witness ==
    /\ Built
    /\ EntryPointOk
    /\ entry_point # MainName
    /\ Len(files) >= 2
    /\ files[1].key # entry_point

-----------------------------------------------------------------------------
(* C7: for the file pkg/sub/mod.py containing `from .. import other`, the   *)
(* import extractor yields pkg.other, and the build adds the edge to        *)
(* pkg/other.py when that file is in the analyzed set.                      *)

C7_DotsImportYieldsPkgOther ==
    RecordsCreated =>
        \A k \in Keys(files) :
            (/\ k = "pkg/sub/mod.py"
             /\ ImportFromDots(2, "other") \in source[AbsoluteOf(k)].nodes
             /\ TaskRan(k))
            => /\ "pkg.other" \in results[k].imports
               /\ (futures[k] = "collected" /\ "pkg/other.py" \in Keys(files))
                    => "pkg/other.py" \in dependencies[k]

-----------------------------------------------------------------------------
(* C8: for every file F and every module name M extracted from F, the build *)
(* adds the edge F -> G exactly when the files mapping has a key equal to M *)
(* with every dot replaced by the path separator and .py appended, G being  *)
(* the record under that key; a name without such a key adds no edge and    *)
(* causes no error, and no edge is added for any other reason.              *)

\* M with every dot replaced by the path separator and .py appended
DottedToPath(m) == Join(Split(m, "."), Sep) \o PyExt

C8_ResolutionRule ==
    RecordsCreated =>
        /\ \A f \in Keys(files) :
              IF futures[f] = "collected" /\ ~results[f].raised
              THEN dependencies[f] =
                     {DottedToPath(m) : m \in results[f].imports} \cap Keys(files)
              ELSE dependencies[f] = {}
        /\ pc \in {"raising", "failed"} =>
              \/ error = NoMainError /\ Len(MainCandidates(files)) = 0
              \/ /\ error = EmptyNameError
                 /\ \E f \in Keys(files) : WorkerRaised(f) /\ Name(f) = ""
              \/ /\ error = PrintError
                 /\ \E f \in Keys(files) : WorkerRaised(f) /\ ~source[AbsoluteOf(f)].ok

\* the result of a file with one import inside and one outside the analyzed
\* set has been handled, and the build goes on
C8_Witness ==
    /\ pc = "building"
    /\ \E f \in Keys(files) :
          /\ futures[f] = "collected"
          /\ \E m \in results[f].imports : DottedToPath(m) \notin Keys(files)
          /\ \E m \in results[f].imports : DottedToPath(m) \in dependencies[f]
          /\ Cardinality(dependencies[f]) = 1

-----------------------------------------------------------------------------
(* C9: after a successful build, source_nodes contains a record exactly     *)
(* when that record's final dependency set is empty, and contains each such *)
(* record once; a file that imports nothing is in the list.                 *)

Count(l, x) == Cardinality({i \in 1..Len(l) : l[i] = x})

C9_SourceNodes ==
    Built =>
        /\ Range(source_nodes) \subseteq Keys(files)
        /\ \A k \in Keys(files) :
              Count(source_nodes, k) = (IF dependencies[k] = {} THEN 1 ELSE 0)

\* a built graph with a file that imports nothing, a file whose imports are
\* all outside the analyzed set, and a file with a dependency
C9_Witness ==
    /\ Built
    /\ \E k \in Range(source_nodes) : results[k].imports = {}
    /\ \E k \in Keys(files) : dependencies[k] # {}
    /\ Len(source_nodes) >= 2

-----------------------------------------------------------------------------
(* C10: every cycle returned by detect_cycles is a list of at least two     *)
(* relative-path strings whose first and last elements are equal.           *)

C10_CyclesClosed ==
    pc = "detected" =>
        \A c \in CycleSet :
            /\ Len(c) >= 2
            /\ \A i \in 1..Len(c) : c[i] \in Keys(files)
            /\ c[1] = c[Len(c)]

\* a returned list that holds a cycle of two elements and a longer one
C10_Witness ==
    /\ pc = "detected"
    /\ \E c \in CycleSet : Len(c) = 2
    /\ \E c \in CycleSet : Len(c) >= 4

-----------------------------------------------------------------------------
(* C11: in every state of the build and in the finished graph, every        *)
(* record contained in a record's dependency set is a record of the files   *)
(* mapping: no edge points outside the analyzed set.                        *)

C11_NoDanglingEdges ==
    RecordsCreated =>
        /\ DOMAIN dependencies = Keys(files)
        /\ \A k \in Keys(files) : dependencies[k] \subseteq Keys(files)

\* in the middle of the build, a handled result has left an edge and has
\* dropped an import that resolves to no analyzed file, while another task
\* is still to be handled
C11_Witness ==
    /\ pc = "building"
    /\ \E k \in Keys(files) : futures[k] # "collected"
    /\ \E f \in Keys(files) :
          /\ futures[f] = "collected"
          /\ dependencies[f] # {}
          /\ \E imp \in results[f].imports : FilePathOf(imp) \notin Keys(files)

-----------------------------------------------------------------------------
(* C12: when reading or parsing a file fails during the build, that file    *)
(* ends with an empty dependency set, the failure does not abort the build, *)
(* and every other file ends with the dependency set it would have had if   *)
(* the failing file had parsed to zero imports.                             *)

\* the contents with the file of record k replaced by a file without imports
SourceWithoutImports(k) == [source EXCEPT ![AbsoluteOf(k)] = Parsed({})]

C12_ParseFailureIsolated ==
    RecordsCreated =>
        \A k \in Keys(files) :
            ~source[AbsoluteOf(k)].ok =>
                /\ dependencies[k] = {}
                /\ TaskRan(k) =>
                      (~results[k].raised /\ results[k].imports = {})
                /\ ~WorkerRaised(k)
                /\ AllCollected =>
                      \A g \in Keys(files) \ {k} :
                          dependencies[g] = EdgesOf(files, SourceWithoutImports(k))[g]

-----------------------------------------------------------------------------
(* C13: for a fixed edge set, the set of cycles returned by detect_cycles,  *)
(* cycles compared up to rotation, is the same for every iteration order of *)
(* the files mapping and of each dependency set.  If so, every walk returns *)
(* the cycle set of one reference walk over the same edges, whose iteration *)
(* orders depend on the edge set alone.                                     *)

RECURSIVE RefDfs(_, _, _)
RECURSIVE RefEach(_, _, _)

\* the reference walk from node: d holds the visited set, the path and the
\* cycles found so far
RefDfs(d, deps, node) ==
    IF \E i \in 1..Len(d.path) : d.path[i] = node
    THEN LET i == CHOOSE j \in 1..Len(d.path) : d.path[j] = node IN
         [d EXCEPT !.found = Append(@, SubSeq(d.path, i, Len(d.path)) \o <<node>>)]
    ELSE IF node \in d.seen THEN d
    ELSE LET below == RefEach([d EXCEPT !.seen = @ \cup {node},
                                        !.path = Append(@, node)],
                              deps, deps[node])
         IN [below EXCEPT !.path = d.path]

\* the reference walk from each node of todo, in an order fixed by todo
RefEach(d, deps, todo) ==
    IF todo = {} THEN d
    ELSE LET node == CHOOSE n \in todo : TRUE IN
         RefEach(RefDfs(d, deps, node), deps, todo \ {node})

RefCycles(deps) ==
    RefEach([seen |-> {}, path |-> <<>>, found |-> <<>>], deps, DOMAIN deps).found

\* a cycle up to rotation: the set of its edges
CycleClass(c) == {<<c[i], c[i + 1]>> : i \in 1..(Len(c) - 1)}

CycleClasses(cs) == {CycleClass(cs[i]) : i \in 1..Len(cs)}

C13_SameCycleSet ==
    pc = "detected" => CycleClasses(cycles) = CycleClasses(RefCycles(dependencies))

-----------------------------------------------------------------------------
(* C14: the build fails with a construction error whenever some supplied    *)
(* .py path does not have the root as a proper ancestor, a path equal to    *)
(* the root included; no graph is produced that contains a record whose     *)
(* root is not a proper ancestor of its absolute path.                      *)

C14_ProperAncestor ==
    (BuildOver /\ root_path # None) =>
        /\ (\E i \in 1..Len(file_paths) :
               /\ EndsWith(file_paths[i], PyExt)
               /\ ~ProperAncestor(root_path, file_paths[i]))
           => pc = "failed"
        /\ Built =>
              \A i \in 1..Len(files) : ProperAncestor(root_path, files[i].absolute_path)

-----------------------------------------------------------------------------
(* C15: the mapping serialized by save_json has exactly one key per record  *)
(* of the files mapping, its relative path string, and the value under that *)
(* key lists exactly the relative path strings of the record's direct       *)
(* dependencies, each once; reading the serialized form back yields the     *)
(* same file-to-dependency mapping, modulo list order.                      *)

\* json.load: the index of the quote that closes the string literal whose
\* content starts at i,
RECURSIVE JsonStringEnd(_, _)
JsonStringEnd(t, i) ==
    IF Char(t, i) = "\\" THEN JsonStringEnd(t, i + 2)
    ELSE IF Char(t, i) = "\"" THEN i
    ELSE JsonStringEnd(t, i + 1)

\* the content of a string literal with the escapes undone,
RECURSIVE JsonUnescape(_)
JsonUnescape(s) ==
    IF \A i \in 1..Len(s) : Char(s, i) # "\\" THEN s
    ELSE IF Char(s, 1) = "\\"
         THEN IF Char(s, 2) = "u"
              THEN (CHOOSE c \in DOMAIN JsonCodePoint :
                        JsonCodePoint[c] = SubSeq(s, 3, 6))
                       \o JsonUnescape(SubSeq(s, 7, Len(s)))
              ELSE (CASE Char(s, 2) = "n" -> "\n"
                      [] Char(s, 2) = "r" -> "\r"
                      [] Char(s, 2) = "t" -> "\t"
                      [] Char(s, 2) = "f" -> "\f"
                      [] OTHER -> Char(s, 2))
                       \o JsonUnescape(SubSeq(s, 3, Len(s)))
    ELSE Char(s, 1) \o JsonUnescape(SubSeq(s, 2, Len(s)))

\* the tokens of the text from position i on,
RECURSIVE JsonTokens(_, _)
JsonTokens(t, i) ==
    IF i > Len(t) THEN <<>>
    ELSE IF Char(t, i) = "\""
         THEN LET j == JsonStringEnd(t, i + 1) IN
              <<[kind |-> "string", text |-> JsonUnescape(SubSeq(t, i + 1, j - 1))]>>
                  \o JsonTokens(t, j + 1)
    ELSE IF Char(t, i) \in {" ", "\n"}
         THEN JsonTokens(t, CHOOSE j \in (i + 1)..(Len(t) + 1) :
                               /\ j <= Len(t) => Char(t, j) \notin {" ", "\n"}
                               /\ \A h \in (i + 1)..(j - 1) : Char(t, h) \in {" ", "\n"})
    ELSE <<[kind |-> "punct", text |-> Char(t, i)]>> \o JsonTokens(t, i + 1)

\* the members of an object whose values are lists of strings, in the order
\* of the text,
RECURSIVE JsonMembers(_, _, _)
JsonMembers(toks, in_list, acc) ==
    IF Len(toks) = 0 THEN acc
    ELSE LET tk == Head(toks) IN
         IF tk.kind = "string"
         THEN IF in_list
              THEN JsonMembers(Tail(toks), TRUE,
                       [acc EXCEPT ![Len(acc)].values = Append(@, tk.text)])
              ELSE JsonMembers(Tail(toks), FALSE,
                       Append(acc, [key |-> tk.text, values |-> <<>>]))
         ELSE JsonMembers(Tail(toks),
                  IF tk.text = "[" THEN TRUE
                  ELSE IF tk.text = "]" THEN FALSE ELSE in_list,
                  acc)

JsonMembersOf(t) == JsonMembers(JsonTokens(t, 1), FALSE, <<>>)

\* and the dict made of the members ms, a later member replacing an earlier
\* one
JsonDict(ms) ==
    [k \in {ms[i].key : i \in 1..Len(ms)} |->
        ms[CHOOSE i \in 1..Len(ms) :
               ms[i].key = k /\ \A j \in (i + 1)..Len(ms) : ms[j].key # k].values]

JsonLoad(t) == JsonDict(JsonMembersOf(t))

C15_SavedMapping ==
    (printed # <<>> /\ printed[1] = SavedMessage) =>
        LET members == JsonMembersOf(output)
            loaded == JsonDict(members)
        IN  /\ Len(members) = Len(files)
            /\ DOMAIN loaded = Keys(files)
            /\ \A k \in Keys(files) :
                  /\ Range(loaded[k]) = dependencies[k]
                  /\ Len(loaded[k]) = Cardinality(dependencies[k])

\* a file has been written for a graph in which one record has two
\* dependencies, one of them in a directory, and another record has none
C15_Witness ==
    /\ pc = "saved"
    /\ printed = <<SavedMessage>>
    /\ output # None
    /\ \E k \in Keys(files) :
          /\ Cardinality(dependencies[k]) = 2
          /\ \E g \in dependencies[k] : Name(g) # g
    /\ \E k \in Keys(files) : dependencies[k] = {}

-----------------------------------------------------------------------------
(* C16: detect_cycles returns a non-empty list exactly when the graph       *)
(* contains a directed cycle, wherever the cycle lies (also in a component  *)
(* that is reachable neither from the entry point nor from the first record *)
(* walked) and whatever the iteration order.                                *)

\* the records reachable from the records of S by zero or more edges
RECURSIVE Reach(_, _)
Reach(deps, S) ==
    LET T == S \cup UNION {deps[x] : x \in S} IN
    IF T = S THEN S ELSE Reach(deps, T)

\* k lies on a directed cycle
OnCycle(deps, k) == k \in Reach(deps, deps[k])

C16_NonEmptyIffCycle ==
    pc = "detected" =>
        ((cycles # <<>>) <=> (\E k \in Keys(files) : OnCycle(dependencies, k)))

\* detect_cycles has returned a cycle that lies in a component reachable
\* neither from the entry point nor from the first record of the mapping
C16_Witness ==
    /\ pc = "detected"
    /\ cycles # <<>>
    /\ \A k \in Reach(dependencies, {entry_point, files[1].key}) :
          ~OnCycle(dependencies, k)

-----------------------------------------------------------------------------
(* C17: every cycle [n0, ..., nk] that detect_cycles has recorded is a real *)
(* closed path of the graph: n0 = nk, n(i+1) is in the dependency set of    *)
(* n(i) for 0 <= i < k, and n0 .. n(k-1) are pairwise distinct.             *)

ClosedPath(c) ==
    /\ Len(c) >= 2
    /\ c[1] = c[Len(c)]
    /\ \A i \in 1..(Len(c) - 1) : c[i + 1] \in dependencies[c[i]]
    /\ \A i, j \in 1..(Len(c) - 1) : i # j => c[i] # c[j]

C17_CyclesAreClosedPaths ==
    pc \in {"detecting", "detected", "detect_failed"} => \A c \in CycleSet : ClosedPath(c)

\* detect_cycles has returned two cycles, one of them through three files
C17_Witness ==
    /\ pc = "detected"
    /\ Len(cycles) >= 2
    /\ \E c \in CycleSet : Len(c) = 4 /\ ClosedPath(c)

-----------------------------------------------------------------------------
(* C18: for a from-import with relative level N > 0 and target module M in  *)
(* a file whose dotted module path has k components, the import extractor   *)
(* yields the first k - N components of the file's module path followed by  *)
(* the first dot-component of M; the import is skipped only when that name  *)
(* would have fewer than one component, that is when k - N + 1 < 1.         *)

\* the name the rule gives for a from-import of M at level N in file f
RelativeName(f, M, N) ==
    LET comps == Split(ModuleOf(f), ".") IN
    Join(SubSeq(comps, 1, Len(comps) - N) \o <<Split(M, ".")[1]>>, ".")

C18_RelativeImportRule ==
    RecordsCreated =>
        \A f \in Keys(files) :
            (TaskRan(f) /\ source[AbsoluteOf(f)].ok /\ ~results[f].raised) =>
                \A node \in source[AbsoluteOf(f)].nodes :
                    (node.type = "ImportFrom" /\ node.level > 0 /\ node.module # None) =>
                        LET k == Len(Split(ModuleOf(f), ".")) IN
                        IF k - node.level + 1 >= 1
                        THEN RelativeName(f, node.module, node.level) \in results[f].imports
                        ELSE source[AbsoluteOf(f)].nodes = {node} => results[f].imports = {}

-----------------------------------------------------------------------------
(* C19: during detect_cycles, between any two dfs steps the on-stack set is *)
(* the set of elements of the path list and the path list has no repeated   *)
(* element; the path lists, in call order, the node each active dfs call    *)
(* has pushed, so a call that returns removes exactly its own node, and the *)
(* stack and the path are empty whenever a top-level walk has returned,     *)
(* also when a cycle was found through a descendant.                        *)

C19_StackIsPath ==
    pc \in {"detecting", "detected", "detect_failed"} =>
        /\ stack = Range(path)
        /\ \A i, j \in 1..Len(path) : i # j => path[i] # path[j]
        /\ path = [i \in 1..Len(frames) |-> frames[i].node]
        /\ frames = <<>> => (stack = {} /\ path = <<>>)

\* the walk from the first record has returned after a cycle that starts at
\* one of its descendants was recorded, and the outer loop has rounds left
C19_Witness ==
    /\ pc = "detecting"
    /\ frames = <<>>
    /\ cursor = 2
    /\ cursor <= Len(files)
    /\ \E c \in CycleSet : Len(c) >= 3 /\ c[1] # files[1].key
    /\ stack = {}
    /\ path = <<>>

-----------------------------------------------------------------------------
(* C20: during the build exactly one task exists per record of the files    *)
(* mapping and its result is handled at most once; the dependency set of a  *)
(* record F changes only in the step that handles the result of F's own     *)
(* task, under every interleaving of task completions.                      *)

\* the build is between the entry of the with block and its exit
InBuild == pc \in {"submitting", "building", "raising"}

\* one task per record, each result handled at most once: while the tasks
\* are submitted, the records that have a task are the first ones of the
\* mapping and no result has been handled; from the start of the loop on
\* every record has its task
OneTaskPerRecord ==
    /\ DOMAIN futures = Keys(files)
    /\ Cardinality(Keys(files)) = Len(files)
    /\ IF pc = "submitting"
       THEN /\ \E n \in 0..(Len(files) - 1) :
                  \A i \in 1..Len(files) :
                      futures[files[i].key] = "unsubmitted" <=> i > n
            /\ yielded = <<>>
       ELSE \A k \in Keys(files) : futures[k] # "unsubmitted"
    /\ \A i, j \in 1..Len(yielded) : i # j => yielded[i] # yielded[j]
    /\ Range(yielded) = {k \in Keys(files) : futures[k] = "collected"}

\* a step of the build changes the dependency set of F only by handling the
\* result of F's task
OwnResultOnly ==
    InBuild =>
        \A f \in Keys(files) :
            dependencies'[f] # dependencies[f] =>
                /\ futures[f] = "finished"
                /\ futures'[f] = "collected"
                /\ yielded' = Append(yielded, f)

C20_OwnTaskOnly ==
    /\ [](InBuild => OneTaskPerRecord)
    /\ [][OwnResultOnly]_vars

\* results have been handled in another order than the tasks were submitted,
\* and a record that a handled record depends on still has an empty
\* dependency set although its own task has finished with imports to add
C20_Witness ==
    /\ pc = "building"
    /\ Len(yielded) >= 2
    /\ yielded # SubSeq(KeyList(files), 1, Len(yielded))
    /\ \E f, g \in Keys(files) :
          /\ f # g
          /\ futures[g] = "collected"
          /\ f \in dependencies[g]
          /\ futures[f] = "finished"
          /\ \E imp \in results[f].imports : FilePathOf(imp) \in Keys(files)
          /\ dependencies[f] = {}

-----------------------------------------------------------------------------
(* C21: once the build has returned, detect_cycles and save_json leave the  *)
(* graph unchanged: the files mapping, every record's dependency set, the   *)
(* entry point and the source-node list are the same after every step of    *)
(* either call as before it, also when save_json fails to write its output  *)
(* or raises, or detect_cycles raises.  As stated, no error reaches the     *)
(* caller when save_json fails to write its output.  As amended, no         *)
(* exception of open or of the write                                        *)
(* reaches the caller: the only exception that leaves save_json is the one  *)
(* of the print in its handler; a call that returns has printed the success *)
(* message or the error message as its last message.                        *)

\* a step taken on the built graph leaves the graph as it was
GraphUntouched ==
    Built =>
        /\ files' = files
        /\ dependencies' = dependencies
        /\ entry_point' = entry_point
        /\ source_nodes' = source_nodes
        /\ pc' # "failed"

\* the texts save_json writes for the graph, one for every iteration order
FullTexts ==
    {JsonDump(Serializable(files, lists)) : lists \in IterationOrders(files, dependencies)}

\* a call of save_json that does not write the whole text raises nothing
NoErrorWhenNotWritten ==
    (pc = "built" /\ pc' = "saved" /\ output' \notin FullTexts) => error' = error

\* C21 as stated: the graph is unchanged, and no error reaches the caller
\* when save_json fails to write its output
C21_Original == [][GraphUntouched /\ NoErrorWhenNotWritten]_vars

\* a step on the built graph raises only the exception of the handler's
\* print, in save_json, or RecursionError, in detect_cycles
RaisedOnlyWhere ==
    (Built /\ error' # error) =>
        /\ error = None
        /\ \/ pc = "built" /\ pc' = "saved" /\ error' = PrintError
           \/ pc = "detecting" /\ pc' = "detect_failed" /\ error' = RecursionError

\* C21 as amended: the graph is unchanged by every step, only the print of
\* the handler raises, and a call that returns has printed a message last
C21_GraphReadOnly ==
    /\ [][GraphUntouched /\ RaisedOnlyWhere]_vars
    /\ [](Built => error \in {None, PrintError, RecursionError})
    /\ [](pc = "saved" => error \in {None, PrintError})
    /\ []((pc = "saved" /\ error = None) =>
             /\ printed # <<>>
             /\ printed[Len(printed)] \in {SavedMessage, SaveErrorMessage}
             /\ printed[Len(printed)] = SavedMessage => printed = <<SavedMessage>>)

\* save_json has opened the file, has failed to write all of the text and
\* has returned, on a graph that has edges and a source node
C21_Witness ==
    /\ pc = "saved"
    /\ printed = <<SaveErrorMessage>>
    /\ output # None
    /\ Len(output) > Len(JsonIndent)
    /\ \A i \in 1..Len(output) : Char(output, i) # "]"
    /\ error = None
    /\ entry_point \in Keys(files)
    /\ source_nodes # <<>>
    /\ \E k \in Keys(files) : Cardinality(dependencies[k]) = 2

-----------------------------------------------------------------------------
(* C22: detect_cycles terminates on every graph, also on graphs with cycles *)
(* and self-edges: a call that has started returns; a record is marked      *)
(* visited and has its dependencies expanded only when it is not yet        *)
(* visited, hence at most once; and when the call returns every record of   *)
(* the files mapping is in the visited set.                                 *)

\* a step of the walk expands a record only if it was not visited, marks
\* exactly that record, and never unmarks one
ExpandedOnce ==
    pc = "detecting" =>
        IF Len(frames') > Len(frames)
        THEN LET node == frames'[Len(frames')].node IN
             /\ Len(frames') = Len(frames) + 1
             /\ node \notin visited
             /\ visited' = visited \cup {node}
             /\ frames'[Len(frames')].todo = dependencies[node]
        ELSE visited' = visited

C22_Terminates ==
    /\ (pc = "detecting") ~> (pc = "detected")
    /\ [][ExpandedOnce]_vars
    /\ [](pc = "detected" => visited = Keys(files))

====
